---------------------------- MODULE Spec2Model ----------------------------
(***************************************************************************)
(* Model of compiledb-rs: the log parser (src/src/parser.rs) and the make  *)
(* trace driver (src/src/make_wrapper.rs).                                 *)
(*                                                                         *)
(* Text is modelled structurally.  A line is a sequence of whitespace      *)
(* separated tokens; a token is a sequence of pieces.  A piece is a path   *)
(* component ("w", "a.c"), the root directory "/", a quote character       *)
(* (apostrophe, back-tick, double quote) or a plain word ("gcc", "-c",     *)
(* "&&").  The back-tick is written BT.  The string a token stands for is  *)
(* produced by TokStr.  A path (PathBuf) is the                            *)
(* sequence of its raw pieces; Components gives what Path::components()    *)
(* yields.  A regular expression is modelled by the set of model strings   *)
(* it matches together with whether it compiles.                           *)
(***************************************************************************)
EXTENDS Integers, Sequences, FiniteSets, TLC

VARIABLES
    phase,          \* "start" | "ready" (Parser::new returned Ok) | "error"
    config,         \* the Config handed to Parser::new and parse_line
    exclude_regex,  \* Parser.exclude_regex : Option<Regex>
    dir_stack,      \* Parser.dir_stack : Vec<PathBuf>
    working_dir,    \* Parser.working_dir : PathBuf
    commands,       \* the Vec<CompileCommand> returned by the last parse_line
    trace,          \* log of the parse_line calls made so far: the line, what
                    \* update_working_dir returned, the fields afterwards
    all_commands,   \* the Vec<CompileCommand> parse_file, run and execute collect
    first_run,      \* what an earlier run over the same stream ended with, if any
    pc,             \* MakeWrapper::execute: position of the driver
    child,          \* what the spawned make is doing
    todo,           \* writes the child may still start
    out_pipe,       \* bytes (units) buffered in the child's stdout pipe
    err_pipe,       \* bytes (units) buffered in the child's stderr pipe
    status,         \* exit status of the dry-run child, once it has exited
    returned,       \* what MakeWrapper::execute returned
    build,          \* what MakeWrapper::run_build did about the real build
    outcome,        \* what run returned to main
    output_file,    \* the compilation database on disk, as run leaves it
    serde_cmd,      \* a CompileCommand handed to serde_json::to_string
    json,           \* the JSON text serde_json::to_string gave for it
    decoded         \* what serde_json::from_str gave for that text

parser_vars ==
    <<phase, config, exclude_regex, dir_stack, working_dir, commands, trace,
      all_commands, first_run>>
drain_vars ==
    <<pc, child, todo, out_pipe, err_pipe, status, returned, build, outcome,
      output_file>>
serde_vars == <<serde_cmd, json, decoded>>
vars == <<parser_vars, drain_vars, serde_vars>>

-----------------------------------------------------------------------------
(* Bounds *)

\* number of parse_line calls made on one parser
MaxLines == 3
\* capacity of an OS pipe, in write units
PipeCap == 2
\* number of writes the child makes before it exits
MaxWrites == 5
\* length of the argument list of a serialized CompileCommand
MaxArgs == 2

-----------------------------------------------------------------------------
(* Generic helpers *)

None == <<>>
Some(x) == <<x>>

Last(s) == s[Len(s)]

IsPrefix(p, s) == Len(p) <= Len(s) /\ SubSeq(s, 1, Len(p)) = p

Min(S) == CHOOSE x \in S : \A y \in S : x <= y
Max(S) == CHOOSE x \in S : \A y \in S : y <= x

-----------------------------------------------------------------------------
(* Strings *)

\* the back-tick character
BT == "<bt>"

QuoteChars == {"'", BT, "\""}

IsName(piece) == piece # "/" /\ piece \notin QuoteChars

\* the text of a token: pieces concatenated, path components separated by "/"
RECURSIVE TokStr(_)
TokStr(tok) ==
    IF tok = <<>> THEN ""
    ELSE IF Len(tok) = 1 THEN tok[1]
    ELSE IF IsName(tok[1]) /\ IsName(tok[2])
         THEN tok[1] \o "/" \o TokStr(Tail(tok))
         ELSE tok[1] \o TokStr(Tail(tok))

\* [String]::join(" ")
RECURSIVE JoinSpace(_)
JoinSpace(strs) ==
    IF strs = <<>> THEN ""
    ELSE IF Len(strs) = 1 THEN strs[1]
    ELSE strs[1] \o " " \o JoinSpace(Tail(strs))

Strs(tokens) == [i \in 1..Len(tokens) |-> TokStr(tokens[i])]

-----------------------------------------------------------------------------
(* Paths: std::path *)

is_absolute(p) == p # <<>> /\ p[1] = "/"

\* Path::components(): a "." that is not the first component is dropped
RECURSIVE DropDots(_)
DropDots(p) ==
    IF p = <<>> THEN <<>>
    ELSE IF Head(p) = "." THEN DropDots(Tail(p))
    ELSE <<Head(p)>> \o DropDots(Tail(p))

Components(p) == IF p = <<>> THEN <<>> ELSE <<Head(p)>> \o DropDots(Tail(p))

\* a join that forgets the receiver
join_without_base(base, p) == p

\* PathBuf::join: an absolute argument replaces the receiver
join(base, p) == IF is_absolute(p) THEN p ELSE base \o p

\* Path::strip_prefix, None when base is not a component-wise prefix
strip_prefix(p, base) ==
    IF IsPrefix(Components(base), Components(p))
    THEN Some(SubSeq(Components(p), Len(Components(base)) + 1, Len(Components(p))))
    ELSE None

-----------------------------------------------------------------------------
(* Strings as character sequences: tokens separated by " " *)

RECURSIVE ToChars(_)
ToChars(tokens) ==
    IF tokens = <<>> THEN <<>>
    ELSE IF Len(tokens) = 1 THEN tokens[1]
    ELSE tokens[1] \o <<" ">> \o ToChars(Tail(tokens))

\* str::split_whitespace
RECURSIVE split_whitespace(_, _)
split_whitespace(chars, cur) ==
    IF chars = <<>> THEN (IF cur = <<>> THEN <<>> ELSE <<cur>>)
    ELSE IF Head(chars) = " "
         THEN (IF cur = <<>> THEN <<>> ELSE <<cur>>) \o split_whitespace(Tail(chars), <<>>)
         ELSE split_whitespace(Tail(chars), Append(cur, Head(chars)))

ToTokens(chars) == split_whitespace(chars, <<>>)

\* str::replace: every occurrence of pat, left to right
RECURSIVE replace(_, _, _)
replace(s, pat, rep) ==
    IF Len(s) < Len(pat) \/ pat = <<>> THEN s
    ELSE IF IsPrefix(pat, s)
         THEN rep \o replace(SubSeq(s, Len(pat) + 1, Len(s)), pat, rep)
         ELSE <<Head(s)>> \o replace(Tail(s), pat, rep)

Words(strs) == [i \in 1..Len(strs) |-> <<strs[i]>>]

Quoted(open, path, close) == <<open>> \o path \o <<close>>

-----------------------------------------------------------------------------
(* The environment of a run: file system, shell, PATH *)

BuildDir == <<"/", "w">>
SubDir == <<"/", "w", "sub">>

\* std::env::current_dir()
CurrentDir == BuildDir

\* the source files that exist on disk
FilesOnDisk == {<<"/", "w", "a.c">>, <<"/", "w", "sub", "b.c">>}

\* Path::exists
exists(path) == Components(path) \in FilesOnDisk

\* which::which
which(tok) ==
    IF tok = <<"gcc">> THEN Some(<<"/", "usr", "bin", "gcc">>) ELSE None

\* the text of the file f of the directory the program runs in: a back-tick
\* span that prints the file
SpanFileText == <<BT, "cat", " ", "f", BT>>

\* Command::new("sh").arg("-c").arg(cmd).output(): echo prints its arguments,
\* true prints nothing, cat f prints the file f, anything else exits non-zero
sh_output(cmd) ==
    IF cmd # <<>> /\ cmd[1] = <<"echo">>
    THEN [success |-> TRUE, stdout |-> ToChars(Tail(cmd))]
    ELSE IF cmd = <<<<"true">>>>
    THEN [success |-> TRUE, stdout |-> <<>>]
    ELSE IF cmd = <<<<"cat">>, <<"f">>>>
    THEN [success |-> TRUE, stdout |-> SpanFileText]
    ELSE [success |-> FALSE, stdout |-> <<>>]

-----------------------------------------------------------------------------
(* Config and the patterns it carries *)

\* Config::default().regex_compile: the words of the model it matches at the
\* end of a token
DefaultRegexCompile == [valid |-> TRUE, lang |-> {"gcc", "cc", "clang"}]

\* Config::default().regex_file: the source names of the model whose
\* extension it accepts
DefaultRegexFile == [valid |-> TRUE, lang |-> {"a.c", "b.c"}]

\* a pattern that Regex::new rejects
InvalidPattern == [valid |-> FALSE, lang |-> {}]

\* exclusion patterns of the model, by the file strings they match
ExcludeA == [valid |-> TRUE, lang |-> {"a.c", "sub/a.c"}]
ExcludeB == [valid |-> TRUE, lang |-> {"b.c"}]
ExcludeNothing == [valid |-> TRUE, lang |-> {}]

DefaultConfig ==
    [ build_dir |-> BuildDir,
      exclude_patterns |-> <<>>,
      no_build |-> FALSE,
      no_strict |-> TRUE,
      macros |-> <<>>,
      command_style |-> FALSE,
      full_path |-> FALSE,
      regex_compile |-> DefaultRegexCompile,
      regex_file |-> DefaultRegexFile ]

Configs ==
    { DefaultConfig,
      [DefaultConfig EXCEPT !.command_style = TRUE, !.macros = <<<<"-DX">>>>,
                            !.exclude_patterns = <<ExcludeB>>],
      [DefaultConfig EXCEPT !.no_strict = FALSE, !.full_path = TRUE, !.build_dir = <<>>],
      [DefaultConfig EXCEPT !.exclude_patterns = <<ExcludeNothing, ExcludeA>>,
                            !.macros = <<<<"-DX">>>>],
      [DefaultConfig EXCEPT !.exclude_patterns = <<ExcludeB, InvalidPattern>>],
      [DefaultConfig EXCEPT !.exclude_patterns = <<InvalidPattern, ExcludeA>>],
      [DefaultConfig EXCEPT !.regex_compile = InvalidPattern],
      [DefaultConfig EXCEPT !.regex_file = InvalidPattern] }

\* Regex::new
regex_new(pattern) == IF pattern.valid THEN Some(pattern) ELSE None

\* Regex::is_match on a string of the model
is_match(re, str) == str \in re.lang

-----------------------------------------------------------------------------
(* The fixed regular expressions of Parser::new *)

\* (?:mingw32-make|gmake|make) at the start of a line
MakeWords == {"make", "gmake", "mingw32-make"}

\* a word holding a make name and ending with ":", as in "make[1]:"
BannerHeads == {"make:", "make[1]:", "make[2]:"}

\* (;|&&|\|\|)
ShellOps == {";", "&&", "||"}

\* the two characters \" that parse_line replaces by "
EscapedQuote == "\\\""

\* a checking_make that matches no line
checking_make_never(line) == FALSE

\* checking_make: ^\s?checking whether .*(yes|no)$
checking_make(line) ==
    /\ Len(line) >= 3
    /\ line[1] = <<"checking">>
    /\ line[2] = <<"whether">>
    /\ Last(Last(line)) \in {"yes", "no"}

\* where ": <word> directory " starts in line, for word Entering or Leaving
BannerAt(line, word) ==
    {i \in 1..Len(line) :
        /\ i + 3 <= Len(line)
        /\ Len(line[i]) = 1 /\ line[i][1] \in BannerHeads
        /\ line[i + 1] = <<word>>
        /\ line[i + 2] = <<"directory">>}

\* the text after ": <word> directory "
BannerTail(line, word) ==
    ToChars(SubSeq(line, Min(BannerAt(line, word)) + 3, Len(line)))

\* make_enter_dir: ... Entering directory .*['`"](.*)['`"]$ ; the greedy .*
\* leaves the capture between the last two quote characters
make_enter_dir(line) ==
    IF BannerAt(line, "Entering") = {} THEN None
    ELSE LET tail == BannerTail(line, "Entering")
             opens == {k \in 1..(Len(tail) - 1) : tail[k] \in QuoteChars}
         IN  IF Last(tail) \in QuoteChars /\ opens # {}
             THEN Some(SubSeq(tail, Max(opens) + 1, Len(tail) - 1))
             ELSE None

\* make_leave_dir: ... Leaving directory .*'(.*)'$
make_leave_dir(line) ==
    /\ BannerAt(line, "Leaving") # {}
    /\ LET tail == BannerTail(line, "Leaving")
       IN  /\ Last(tail) = "'"
           /\ \E k \in 1..(Len(tail) - 1) : tail[k] = "'"

\* a make_cmd_dir whose capture is the last word of the line
make_cmd_dir_last(line) ==
    IF line = <<>> \/ Len(line[1]) # 1 \/ line[1][1] \notin (MakeWords \cup BannerHeads)
    THEN None
    ELSE LET at == {i \in 2..(Len(line) - 1) : line[i] = <<"-C">>}
         IN  IF at = {} THEN None ELSE Some(Last(line))

\* make_cmd_dir: ^\s*(?:mingw32-make|gmake|make).*?-C\s+(.*?)(\s|$)
make_cmd_dir(line) ==
    IF line = <<>> \/ Len(line[1]) # 1 \/ line[1][1] \notin (MakeWords \cup BannerHeads)
    THEN None
    ELSE LET at == {i \in 2..(Len(line) - 1) : line[i] = <<"-C">>}
         IN  IF at = {} THEN None ELSE Some(line[Min(at) + 1])

\* compile_regex on one whitespace-free word: the compiler name ends the word
compile_match_token(tok, compile_regex) ==
    tok # <<>> /\ is_match(compile_regex, Last(tok))

\* compile_regex.is_match on a line or a command: the compiler name is
\* followed by white space or by the end
compile_match(tokens, compile_regex) ==
    \E i \in 1..Len(tokens) : compile_match_token(tokens[i], compile_regex)

\* file_regex.captures taking the word after -o for the source file
file_captures_output(tokens, file_regex) ==
    LET at == {i \in 2..(Len(tokens) - 3) :
                  /\ tokens[i] = <<"-c">>
                  /\ tokens[i + 1] # <<>>
                  /\ is_match(file_regex, Last(tokens[i + 1]))
                  /\ tokens[i + 2] = <<"-o">>}
    IN  IF at = {} THEN None ELSE Some(tokens[Min(at) + 3])

\* file_regex.captures: \s-c\s+(\S+\.(c|cpp|...))\s+-o\s
file_captures(tokens, file_regex) ==
    LET at == {i \in 2..(Len(tokens) - 3) :
                  /\ tokens[i] = <<"-c">>
                  /\ tokens[i + 1] # <<>>
                  /\ is_match(file_regex, Last(tokens[i + 1]))
                  /\ tokens[i + 2] = <<"-o">>}
    IN  IF at = {} THEN None ELSE Some(tokens[Min(at) + 1])

\* a cd_regex that matches no command
cd_captures_none(tokens) == None

\* cd_regex: ^cd\s+(.*)$
cd_captures(tokens) ==
    IF Len(tokens) >= 2 /\ tokens[1] = <<"cd">>
    THEN Some(ToChars(Tail(tokens)))
    ELSE None

\* nested_cmd_regex: `([^`]+)` ; the first span, as its two positions
nested_captures(chars) ==
    LET ticks == {i \in 1..Len(chars) : chars[i] = BT}
        opens == {a \in ticks : a + 1 \notin ticks /\ \E b \in ticks : a < b}
    IN  IF opens = {} THEN None
        ELSE Some(<<Min(opens), Min({b \in ticks : Min(opens) < b})>>)

-----------------------------------------------------------------------------
(* Parser *)

\* update_working_dir with the Leaving branch popping the stack but leaving
\* working_dir as it was
update_working_dir_no_restore(line, stack, wd) ==
    IF make_enter_dir(line) # None
    THEN [handled |-> TRUE, dir_stack |-> <<make_enter_dir(line)[1]>> \o stack,
          working_dir |-> make_enter_dir(line)[1]]
    ELSE IF make_leave_dir(line)
    THEN [handled |-> stack # <<>>,
          dir_stack |-> IF stack # <<>> THEN Tail(stack) ELSE stack,
          working_dir |-> wd]
    ELSE IF make_cmd_dir(line) # None
    THEN IF make_cmd_dir(line)[1] # <<".">>
         THEN [handled |-> TRUE, dir_stack |-> <<make_cmd_dir(line)[1]>> \o stack,
               working_dir |-> make_cmd_dir(line)[1]]
         ELSE [handled |-> TRUE, dir_stack |-> stack, working_dir |-> wd]
    ELSE [handled |-> FALSE, dir_stack |-> stack, working_dir |-> wd]

\* Parser::update_working_dir: the value returned and the fields afterwards
update_working_dir(line, stack, wd) ==
    LET entered == make_enter_dir(line)
    IN
    IF entered # None
    THEN LET enter_dir == entered[1]
         IN  [handled |-> TRUE, dir_stack |-> <<enter_dir>> \o stack,
              working_dir |-> enter_dir]
    ELSE IF make_leave_dir(line)
    THEN IF stack # <<>>
         THEN [handled |-> TRUE, dir_stack |-> Tail(stack),
               working_dir |-> IF Tail(stack) # <<>> THEN Tail(stack)[1] ELSE wd]
         ELSE [handled |-> FALSE, dir_stack |-> stack, working_dir |-> wd]
    ELSE IF make_cmd_dir(line) # None
    THEN LET enter_dir == make_cmd_dir(line)[1]
         IN  IF enter_dir # <<".">>
             THEN [handled |-> TRUE, dir_stack |-> <<enter_dir>> \o stack,
                   working_dir |-> enter_dir]
             ELSE [handled |-> TRUE, dir_stack |-> stack, working_dir |-> wd]
    ELSE [handled |-> FALSE, dir_stack |-> stack, working_dir |-> wd]

\* process_nested_commands leaving every span in place
no_substitution(result) == result

\* Parser::process_nested_commands, on the characters of the line
RECURSIVE process_nested_commands(_)
process_nested_commands(result) ==
    IF nested_captures(result) = None THEN result
    ELSE LET caps == nested_captures(result)[1]
             whole == SubSeq(result, caps[1], caps[2])
             nested_cmd == SubSeq(result, caps[1] + 1, caps[2] - 1)
             output == sh_output(ToTokens(nested_cmd))
         IN  IF output.success
             THEN process_nested_commands(replace(result, whole, output.stdout))
             ELSE result

\* Parser::process_nested_commands, the while loop at lines 170-188: it never
\* ends when a replacement brings back a text the loop has already had
RECURSIVE nested_loop_diverges(_, _)
nested_loop_diverges(result, seen) ==
    IF nested_captures(result) = None THEN FALSE
    ELSE LET caps == nested_captures(result)[1]
             whole == SubSeq(result, caps[1], caps[2])
             nested_cmd == SubSeq(result, caps[1] + 1, caps[2] - 1)
             output == sh_output(ToTokens(nested_cmd))
         IN  IF output.success
             THEN \/ replace(result, whole, output.stdout) \in seen \cup {result}
                  \/ nested_loop_diverges(replace(result, whole, output.stdout),
                                          seen \cup {result})
             ELSE FALSE

\* Parser::split_commands: split on the shell operators, trim, drop the empty
RECURSIVE split_on_ops(_, _)
split_on_ops(chars, cur) ==
    IF chars = <<>> THEN <<cur>>
    ELSE IF Head(chars) \in ShellOps
         THEN <<cur>> \o split_on_ops(Tail(chars), <<>>)
         ELSE split_on_ops(Tail(chars), Append(cur, Head(chars)))

\* split_commands giving the commands of the line from right to left
split_commands_reversed(command) ==
    LET parts == split_on_ops(command, <<>>)
        trimmed == [i \in 1..Len(parts) |-> ToTokens(parts[Len(parts) + 1 - i])]
    IN  SelectSeq(trimmed, LAMBDA c : c # <<>>)

split_commands(command) ==
    LET parts == split_on_ops(command, <<>>)
        trimmed == [i \in 1..Len(parts) |-> ToTokens(parts[i])]
    IN  SelectSeq(trimmed, LAMBDA c : c # <<>>)

\* process_compile_command keeping the source file as it is written
relative_file_kept(file, wd) == file

\* process_compile_command, lines 241-276: the source file made relative
relative_file(file, wd) ==
    IF is_absolute(file)
    THEN IF strip_prefix(file, wd) # None
         THEN strip_prefix(file, wd)[1]
         ELSE LET file_components == Components(file)
                  working_dir_components == Components(wd)
                  starts == {i \in 1..Len(file_components) :
                                \E j \in 1..Len(working_dir_components) :
                                    IsPrefix(SubSeq(working_dir_components, j,
                                                    Len(working_dir_components)),
                                             SubSeq(file_components, i,
                                                    Len(file_components)))}
              IN  IF starts # {}
                  THEN SubSeq(file_components, Min(starts), Len(file_components))
                  ELSE file
    ELSE file

\* process_compile_command, lines 278-287: the compiler's full path
full_path_args(arguments, cfg) ==
    IF cfg.full_path /\ which(arguments[1]) # None
    THEN <<which(arguments[1])[1]>> \o Tail(arguments)
    ELSE arguments

\* process_compile_command, lines 289-299: the argument after -c made relative
relative_c_arg(final_args, wd) ==
    LET at == {i \in 1..Len(final_args) : final_args[i] = <<"-c">>}
    IN  IF at # {} /\ Min(at) + 1 <= Len(final_args)
           /\ is_absolute(final_args[Min(at) + 1])
           /\ strip_prefix(final_args[Min(at) + 1], wd) # None
        THEN [final_args EXCEPT ![Min(at) + 1] = strip_prefix(final_args[Min(at) + 1], wd)[1]]
        ELSE final_args

\* process_compile_command, lines 301-307: the exclusion check
excluded(file, excl) == excl # None /\ is_match(excl[1], TokStr(file))

\* compile_command with arguments filled in whatever the style
compile_command_both(wd, file, final_args, cfg) ==
    [ directory |-> TokStr(wd),
      file |-> TokStr(file),
      command |-> IF cfg.command_style THEN Some(JoinSpace(Strs(final_args))) ELSE None,
      arguments |-> Some(Strs(final_args)),
      output |-> None ]

\* process_compile_command, lines 321-335: the record
compile_command(wd, file, final_args, cfg) ==
    [ directory |-> TokStr(wd),
      file |-> TokStr(file),
      command |-> IF cfg.command_style THEN Some(JoinSpace(Strs(final_args))) ELSE None,
      arguments |-> IF cfg.command_style THEN None ELSE Some(Strs(final_args)),
      output |-> None ]

\* Parser::process_compile_command: Option<CompileCommand>
process_compile_command(command, wd, cfg, excl) ==
    LET args == command
        compile_at == {i \in 1..Len(args) : compile_match_token(args[i], cfg.regex_compile)}
        file_match == file_captures(command, cfg.regex_file)
    IN  IF compile_at = {} THEN None
        ELSE IF file_match = None THEN None
        ELSE LET arguments == SubSeq(args, Min(compile_at), Len(args))
                 file == relative_file(file_match[1], wd)
                 final_args == relative_c_arg(full_path_args(arguments, cfg), wd)
             IN  IF excluded(file, excl) THEN None
                 ELSE IF ~cfg.no_strict /\ ~exists(join(wd, file)) THEN None
                 ELSE Some(compile_command(wd, file, final_args \o cfg.macros, cfg))

\* parse_line, lines 104-125: the loop over the commands of the line
RECURSIVE run_commands(_, _, _, _, _)
run_commands(cmds, wd, found, cfg, excl) ==
    IF cmds = <<>> THEN [working_dir |-> wd, commands |-> found]
    ELSE LET cmd == Head(cmds)
             compile_cmd == process_compile_command(cmd, wd, cfg, excl)
         IN  IF cd_captures(cmd) # None
             THEN run_commands(Tail(cmds), join(wd, cd_captures(cmd)[1]), found, cfg, excl)
             ELSE IF compile_match(cmd, cfg.regex_compile) /\ compile_cmd # None
             THEN run_commands(Tail(cmds), wd, Append(found, compile_cmd[1]), cfg, excl)
             ELSE run_commands(Tail(cmds), wd, found, cfg, excl)

\* parse_line, lines 97-104: the commands a line is split into
line_commands(line) ==
    split_commands(replace(process_nested_commands(ToChars(line)),
                           <<EscapedQuote>>, <<"\"">>))

\* Parser::parse_line: whether the call returns, the records returned and the
\* fields afterwards
parse_line(line, stack, wd, cfg, excl) ==
    LET unchanged == [commands |-> <<>>, dir_stack |-> stack, working_dir |-> wd,
                      handled |-> FALSE, returns |-> TRUE]
        upd == update_working_dir(line, stack, wd)
    IN  IF line = <<>> \/ checking_make(line) THEN unchanged
        ELSE IF upd.handled
        THEN [commands |-> <<>>, dir_stack |-> upd.dir_stack,
              working_dir |-> upd.working_dir, handled |-> TRUE, returns |-> TRUE]
        ELSE IF ~compile_match(line, cfg.regex_compile) THEN unchanged
        ELSE IF nested_loop_diverges(ToChars(line), {})
        THEN [unchanged EXCEPT !.returns = FALSE]
        ELSE [dir_stack |-> stack, handled |-> FALSE, returns |-> TRUE]
                 @@ run_commands(line_commands(line), wd, <<>>, cfg, excl)

-----------------------------------------------------------------------------
(* The lines fed to the parser *)

EnterLine(open, dir, close) ==
    Words(<<"make[1]:", "Entering", "directory">>) \o <<Quoted(open, dir, close)>>

LeaveLine(open, dir, close) ==
    Words(<<"make[1]:", "Leaving", "directory">>) \o <<Quoted(open, dir, close)>>

MakeCLine(dir) == Words(<<"make", "-C">>) \o <<dir>>

\* <cc> -c <file> -o <out>
SimpleLine(cc, file, out) == <<<<cc>>, <<"-c">>, file, <<"-o">>, <<out>>>>

CompileLine(file) == Words(<<"gcc", "-c">>) \o <<file>> \o Words(<<"-o", "a.o">>)

CdLine(dir) == Words(<<"cd">>) \o <<dir>>

\* gcc -c `echo a.c` -o a.o
SubstLine ==
    Words(<<"gcc", "-c">>) \o <<<<BT, "echo">>, <<"a.c", BT>>>> \o Words(<<"-o", "a.o">>)

\* gcc -c a.c -o a.o `false`
FailedSubstLine == CompileLine(<<"a.c">>) \o <<<<BT, "false", BT>>>>

\* cd sub && gcc -c b.c -o a.o `false`
FailedSubstCdLine ==
    CdLine(<<"sub">>) \o Words(<<"&&">>) \o CompileLine(<<"b.c">>) \o <<<<BT, "false", BT>>>>

\* make: Leaving directory '/w/my gcc -c a.c -o a.o' (a directory name with blanks)
LeaveCompileLine ==
    Words(<<"make:", "Leaving", "directory">>) \o <<<<"'", "/", "w", "my">>>>
        \o Words(<<"gcc", "-c", "a.c", "-o">>) \o <<<<"a.o", "'">>>>

Lines ==
    { <<>>,
      Words(<<"checking", "whether", "gcc", "works...", "yes">>),
      Words(<<"echo", "done">>),
      EnterLine("'", SubDir, "'"),
      LeaveLine("'", SubDir, "'"),
      EnterLine(BT, SubDir, "'"),
      LeaveLine(BT, SubDir, "'"),
      MakeCLine(<<"sub">>),
      MakeCLine(<<".">>),
      CompileLine(<<"a.c">>),
      CompileLine(<<"/", "w", "sub", "a.c">>),
      CdLine(<<"sub">>),
      CdLine(<<"sub">>) \o Words(<<"&&">>) \o CompileLine(<<"b.c">>),
      SubstLine,
      FailedSubstLine,
      FailedSubstCdLine,
      LeaveCompileLine }

\* cd <dir> && gcc -c <file> -o a.o
CdCompileLine(dir, file) == CdLine(dir) \o Words(<<"&&">>) \o CompileLine(file)

\* clang -c b.c -o b.o
ClangLine == SimpleLine("clang", <<"b.c">>, "b.o")

\* a source file outside the build tree
OutsideFile == <<"/", "x", "sub", "a.c">>

\* `echo gcc` -c a.c -o a.o
CompilerSubstLine ==
    <<<<BT, "echo">>, <<"gcc", BT>>>> \o Words(<<"-c", "a.c", "-o", "a.o">>)

\* gcc -c a.c -o a.o `cat f`
SpanFileLine == CompileLine(<<"a.c">>) \o <<<<BT, "cat">>, <<"f", BT>>>>

\* the lines of a build whose compile commands are extracted
ExtractLines ==
    { EnterLine("'", SubDir, "'"),
      Words(<<"echo", "done">>),
      Words(<<"gcc", "a.c">>),
      CompileLine(<<"a.c">>),
      ClangLine,
      CompileLine(<<"/", "w", "sub", "a.c">>),
      CompileLine(OutsideFile),
      CdCompileLine(<<"sub">>, <<"b.c">>),
      CdCompileLine(SubDir, <<"b.c">>),
      SubstLine,
      CompilerSubstLine,
      FailedSubstLine,
      SpanFileLine }

\* the lines of a stream that is parsed twice
RerunLines ==
    { EnterLine("'", SubDir, "'"),
      LeaveLine("'", SubDir, "'"),
      MakeCLine(<<"sub">>),
      CompileLine(<<"a.c">>),
      CompileLine(<<"/", "w", "sub", "a.c">>),
      CdCompileLine(<<"sub">>, <<"b.c">>),
      SubstLine }

\* gcc -c a.c -o a.o ; cd sub ; gcc -c b.c -o a.o
CompileCdCompileLine ==
    CompileLine(<<"a.c">>) \o Words(<<";">>) \o CdLine(<<"sub">>) \o Words(<<";">>)
        \o CompileLine(<<"b.c">>)

\* gcc -c a.c -o a.o && cd sub
CompileCdLine == CompileLine(<<"a.c">>) \o Words(<<"&&">>) \o CdLine(<<"sub">>)

\* cd sub && cd sub && gcc -c b.c -o a.o
CdCdCompileLine == CdLine(<<"sub">>) \o Words(<<"&&">>) \o CdCompileLine(<<"sub">>, <<"b.c">>)

\* cd gcc: a cd into a directory that has the name of the compiler
CdCompilerLine == CdLine(<<"gcc">>)

\* the lines of a build whose recipes change directory
CompositeLines ==
    { EnterLine("'", SubDir, "'"),
      LeaveLine("'", SubDir, "'"),
      CompileLine(<<"a.c">>),
      CdLine(<<"sub">>),
      CdCompilerLine,
      CdCompileLine(<<"sub">>, <<"b.c">>),
      CdCompileLine(SubDir, <<"b.c">>),
      CompileCdCompileLine,
      CompileCdLine,
      CdCdCompileLine }

\* make -C <dir> && gcc -c a.c -o a.o
MakeCCompileLine(dir) == MakeCLine(dir) \o Words(<<"&&">>) \o CompileLine(<<"a.c">>)

\* checking whether gcc -c a.c -o a.o works... yes
ProbeCompileLine ==
    Words(<<"checking", "whether">>) \o CompileLine(<<"a.c">>) \o Words(<<"works...", "yes">>)

\* the lines of a build with configure chatter and recursive make calls
TrackerLines ==
    { <<>>,
      Words(<<"checking", "whether", "make", "sets", "$(MAKE)...", "no">>),
      ProbeCompileLine,
      Words(<<"echo", "done">>),
      CdLine(<<"sub">>),
      LeaveLine(BT, SubDir, "'"),
      MakeCLine(<<"sub">>),
      MakeCLine(<<".">>),
      MakeCCompileLine(<<"sub">>),
      MakeCCompileLine(<<".">>),
      CompileLine(<<"a.c">>),
      EnterLine("'", SubDir, "'"),
      LeaveLine("'", SubDir, "'") }

-----------------------------------------------------------------------------
(* Actions of the parser *)

ParserInit ==
    /\ phase = "start"
    /\ config \in Configs
    /\ exclude_regex = None
    /\ dir_stack = <<>>
    /\ working_dir = <<>>
    /\ commands = <<>>
    /\ trace = <<>>
    /\ all_commands = <<>>
    /\ first_run = None

DrainIdle ==
    /\ pc = "idle"
    /\ child = "none"
    /\ todo = 0
    /\ out_pipe = 0
    /\ err_pipe = 0
    /\ status = "none"
    /\ returned = "none"
    /\ build = "none"
    /\ outcome = "none"
    /\ output_file = "absent"

\* Parser::new, lines 30-43: the patterns compiled, in order
new_patterns(cfg) ==
    IF regex_new(cfg.regex_compile) = None THEN None
    ELSE IF regex_new(cfg.regex_file) = None THEN None
    ELSE IF cfg.exclude_patterns # <<>>
    THEN IF regex_new(cfg.exclude_patterns[1]) = None THEN None
         ELSE Some(regex_new(cfg.exclude_patterns[1]))
    ELSE Some(None)

\* a parser that starts in the directory the parser before it ended in
stale_working_dir(cfg) ==
    IF working_dir # <<>> THEN working_dir
    ELSE IF cfg.build_dir # <<>> THEN cfg.build_dir ELSE CurrentDir

\* Parser::new, lines 45-50: the directory the parser starts in
new_working_dir(cfg) == IF cfg.build_dir # <<>> THEN cfg.build_dir ELSE CurrentDir

\* Parser::new
New ==
    /\ phase = "start"
    /\ IF new_patterns(config) = None
       THEN /\ phase' = "error"
            /\ UNCHANGED <<exclude_regex, dir_stack, working_dir>>
       ELSE /\ phase' = "ready"
            /\ exclude_regex' = new_patterns(config)[1]
            /\ dir_stack' = <<new_working_dir(config)>>
            /\ working_dir' = new_working_dir(config)
    /\ UNCHANGED <<config, commands, trace, all_commands, first_run, drain_vars, serde_vars>>

\* a loop that puts the records of a line in front of those collected so far
extend_in_front(collected, new_commands) == new_commands \o collected

\* parse_file, lines 147-151, run and execute: commands.extend(new_commands)
extend(collected, new_commands) == collected \o new_commands

\* one call of Parser::parse_line, as the loops of parse_file, run and
\* MakeWrapper::execute make it; a call that does not return hangs the run
ParseLine(line) ==
    /\ phase = "ready"
    /\ Len(trace) < MaxLines
    /\ \E r \in {parse_line(line, dir_stack, working_dir, config, exclude_regex)} :
           IF r.returns
           THEN /\ dir_stack' = r.dir_stack
                /\ working_dir' = r.working_dir
                /\ commands' = r.commands
                /\ all_commands' = extend(all_commands, r.commands)
                /\ trace' = Append(trace, [line |-> line, handled |-> r.handled,
                                           commands |-> r.commands,
                                           working_dir |-> r.working_dir,
                                           dir_stack |-> r.dir_stack])
                /\ phase' = phase
           ELSE /\ phase' = "hung"
                /\ UNCHANGED <<dir_stack, working_dir, commands, all_commands, trace>>
    /\ UNCHANGED <<config, exclude_regex, first_run, drain_vars, serde_vars>>

\* nothing is being serialized
SerdeIdle ==
    /\ serde_cmd = None
    /\ json = None
    /\ decoded = None

Init == ParserInit /\ DrainIdle /\ SerdeIdle

Next ==
    \/ New
    \/ \E line \in Lines : ParseLine(line)

Spec == Init /\ [][Next]_vars

\* the same parser fed the lines of ExtractLines
ExtractNext ==
    \/ New
    \/ \E line \in ExtractLines : ParseLine(line)

ExtractSpec == Init /\ [][ExtractNext]_vars

\* the same parser fed the lines of CompositeLines
CompositeNext ==
    \/ New
    \/ \E line \in CompositeLines : ParseLine(line)

CompositeSpec == Init /\ [][CompositeNext]_vars

\* the same parser fed the lines of TrackerLines
TrackerNext ==
    \/ New
    \/ \E line \in TrackerLines : ParseLine(line)

TrackerSpec == Init /\ [][TrackerNext]_vars

\* run, lines 138-141, called a second time on the same stream: the first
\* run's results are kept aside and a new parser is constructed
Restart ==
    /\ phase = "ready"
    /\ first_run = None
    /\ trace # <<>>
    /\ first_run' = Some([trace |-> trace, all_commands |-> all_commands,
                          dir_stack |-> dir_stack, working_dir |-> working_dir])
    /\ exclude_regex' = new_patterns(config)[1]
    /\ dir_stack' = <<new_working_dir(config)>>
    /\ working_dir' = new_working_dir(config)
    /\ commands' = <<>>
    /\ all_commands' = <<>>
    /\ trace' = <<>>
    /\ UNCHANGED <<phase, config, drain_vars, serde_vars>>

\* a line of the stream, read for the first time
FirstRunLine(line) == first_run = None /\ ParseLine(line)

\* the next line of the same stream, read by the second run
SecondRunLine ==
    /\ first_run # None
    /\ Len(trace) < Len(first_run[1].trace)
    /\ ParseLine(first_run[1].trace[Len(trace) + 1].line)

RerunNext ==
    \/ New
    \/ \E line \in RerunLines : FirstRunLine(line)
    \/ Restart
    \/ SecondRunLine

RerunSpec == Init /\ [][RerunNext]_vars

-----------------------------------------------------------------------------
(* MakeWrapper::execute and the child it spawns.  The two pipes hold at    *)
(* most PipeCap units; a write to a full pipe blocks the child, a read     *)
(* from an empty pipe blocks the driver until the child has exited (end of *)
(* file).  What the lines read from stdout do to the parser is ParseLine.  *)

ParserIdle ==
    /\ phase = "start"
    /\ config \in {DefaultConfig, [DefaultConfig EXCEPT !.no_build = TRUE],
                   [DefaultConfig EXCEPT !.regex_file = InvalidPattern]}
    /\ exclude_regex = None
    /\ dir_stack = <<>>
    /\ working_dir = <<>>
    /\ commands = <<>>
    /\ trace = <<>>
    /\ all_commands = <<>>
    /\ first_run = None

\* execute is entered: nothing spawned yet, the parser not yet constructed
DrainInit ==
    /\ ParserIdle
    /\ SerdeIdle
    /\ pc = "spawn"
    /\ child = "none"
    /\ todo = MaxWrites
    /\ out_pipe = 0
    /\ err_pipe = 0
    /\ status = "none"
    /\ returned = "none"
    /\ build = "none"
    /\ outcome = "none"
    /\ output_file = "absent"

\* a run that goes on to write the database whatever execute returned
after_execute_ignoring(ret) == "done"

\* main.rs, line 114: wrapper.execute(&args, &config)? ; an error ends run
\* before the database is written
after_execute(ret) == IF ret = "Ok" THEN "done" ELSE "failed"

\* command.spawn(), lines 40-50
Spawn ==
    /\ pc = "spawn"
    /\ \/ pc' = "parser" /\ child' = "running" /\ returned' = returned
       \/ pc' = after_execute("Err: spawn") /\ child' = "none" /\ returned' = "Err: spawn"
    /\ UNCHANGED <<todo, out_pipe, err_pipe, status, build, outcome, output_file,
                 parser_vars, serde_vars>>

\* line 53: Parser::new(config)? ; a pattern that does not compile ends
\* execute with the child left running
NewParser ==
    /\ pc = "parser"
    /\ phase = "start"
    /\ IF new_patterns(config) = None
       THEN /\ phase' = "error"
            /\ returned' = "Err: InvalidCommand"
            /\ pc' = after_execute("Err: InvalidCommand")
            /\ UNCHANGED <<exclude_regex, dir_stack, working_dir>>
       ELSE /\ phase' = "ready"
            /\ exclude_regex' = new_patterns(config)[1]
            /\ dir_stack' = <<new_working_dir(config)>>
            /\ working_dir' = new_working_dir(config)
            /\ pc' = "stdout"
            /\ returned' = returned
    /\ UNCHANGED <<config, commands, trace, all_commands, first_run, child, todo,
                 out_pipe, err_pipe, status, build, outcome, output_file, serde_vars>>

\* the child starts a write to one of its two streams
ChildStartWrite ==
    /\ child = "running"
    /\ todo > 0
    /\ child' \in {"write_out", "write_err"}
    /\ todo' = todo - 1
    /\ UNCHANGED <<pc, out_pipe, err_pipe, status, returned, build, outcome, output_file,
                 parser_vars, serde_vars>>

\* the write to stdout completes once the pipe has room
ChildWriteOut ==
    /\ child = "write_out"
    /\ out_pipe < PipeCap
    /\ out_pipe' = out_pipe + 1
    /\ child' = "running"
    /\ UNCHANGED <<pc, todo, err_pipe, status, returned, build, outcome, output_file,
                 parser_vars, serde_vars>>

\* the write to stderr completes once the pipe has room
ChildWriteErr ==
    /\ child = "write_err"
    /\ err_pipe < PipeCap
    /\ err_pipe' = err_pipe + 1
    /\ child' = "running"
    /\ UNCHANGED <<pc, todo, out_pipe, status, returned, build, outcome, output_file,
                 parser_vars, serde_vars>>

\* the child exits with some status, which closes its ends of both pipes
ChildExit ==
    /\ child = "running"
    /\ child' = "exited"
    /\ status' \in {"success", "failure"}
    /\ UNCHANGED <<pc, todo, out_pipe, err_pipe, returned, build, outcome, output_file,
                 parser_vars, serde_vars>>

\* lines 56-61: the loop over stdout_reader.lines()
ReadStdout ==
    /\ pc = "stdout"
    /\ IF out_pipe > 0
       THEN out_pipe' = out_pipe - 1 /\ pc' = pc
       ELSE child = "exited" /\ pc' = "stderr" /\ out_pipe' = out_pipe
    /\ UNCHANGED <<child, todo, err_pipe, status, returned, build, outcome, output_file,
                 parser_vars, serde_vars>>

\* lines 63-68: the loop over stderr_reader.lines()
ReadStderr ==
    /\ pc = "stderr"
    /\ IF err_pipe > 0
       THEN err_pipe' = err_pipe - 1 /\ pc' = pc
       ELSE child = "exited" /\ pc' = "wait" /\ err_pipe' = err_pipe
    /\ UNCHANGED <<child, todo, out_pipe, status, returned, build, outcome, output_file,
                 parser_vars, serde_vars>>

\* an execute that fails on every non-zero status, whatever no_build says
status_check_strict(child_status, cfg) ==
    IF child_status # "success" THEN "Err: Make command failed" ELSE "Ok"

\* lines 75-80: the check of the exit status
status_check(child_status, cfg) ==
    IF child_status # "success" /\ ~cfg.no_build
    THEN "Err: Make command failed"
    ELSE "Ok"

\* lines 70-80: child.wait(), which may itself fail, and the return
Wait ==
    /\ pc = "wait"
    /\ child = "exited"
    /\ \/ returned' = "Err: wait"
       \/ returned' = status_check(status, config)
    /\ pc' = after_execute(returned')
    /\ UNCHANGED <<child, todo, out_pipe, err_pipe, status, build, outcome, output_file,
                 parser_vars, serde_vars>>

\* main.rs, line 114: the error of execute ends run
ExecuteFailed ==
    /\ pc = "failed"
    /\ pc' = "exit"
    /\ outcome' = "Err"
    /\ UNCHANGED <<child, todo, out_pipe, err_pipe, status, returned, build, output_file,
                 parser_vars, serde_vars>>

\* main.rs, lines 116-126: File::create fails, or the file is created and
\* serde_json::to_writer_pretty fails, or the database is written
WriteDatabase ==
    /\ pc = "done"
    /\ \/ pc' = "exit" /\ outcome' = "Err" /\ output_file' = output_file
       \/ pc' = "exit" /\ outcome' = "Err" /\ output_file' = "created"
       \/ pc' = "run_build" /\ outcome' = outcome /\ output_file' = "written"
    /\ UNCHANGED <<child, todo, out_pipe, err_pipe, status, returned, build,
                 parser_vars, serde_vars>>

\* what the real build does once started: it cannot be spawned, or it exits
BuildEnds == {"spawn error", "success", "failure"}

\* a run_build that starts the build whatever no_build says
run_build_always(cfg, build_end) ==
    [build |-> build_end, result |-> IF build_end = "success" THEN "Ok" ELSE "Err"]

\* MakeWrapper::run_build: what it did about the build and what it returned
run_build(cfg, build_end) ==
    IF cfg.no_build
    THEN [build |-> "not spawned", result |-> "Ok"]
    ELSE IF build_end = "spawn error"
    THEN [build |-> "spawn error", result |-> "Err"]
    ELSE IF build_end # "success"
    THEN [build |-> build_end, result |-> "Err"]
    ELSE [build |-> build_end, result |-> "Ok"]

\* main.rs, lines 133-134 and 198: run_build and the end of run
RunBuild ==
    /\ pc = "run_build"
    /\ \E build_end \in BuildEnds :
           /\ build' = run_build(config, build_end).build
           /\ outcome' = run_build(config, build_end).result
    /\ pc' = "exit"
    /\ UNCHANGED <<child, todo, out_pipe, err_pipe, status, returned, output_file,
                 parser_vars, serde_vars>>

DrainNext ==
    \/ Spawn
    \/ NewParser
    \/ ChildStartWrite
    \/ ChildWriteOut
    \/ ChildWriteErr
    \/ ChildExit
    \/ ReadStdout
    \/ ReadStderr
    \/ Wait
    \/ ExecuteFailed
    \/ WriteDatabase
    \/ RunBuild

DrainSpec == DrainInit /\ [][DrainNext]_vars

-----------------------------------------------------------------------------
(* CompileCommand and serde_json.  Here a string is the sequence of its    *)
(* characters, and a JSON text is the sequence of its characters too; the  *)
(* name of a field and the word null are written as one character each.    *)

\* the strings the fields are drawn from: empty, plain, with a quote and a
\* comma, with a backslash and a quote
StringSamples == {<<>>, <<"a">>, <<"\"", ",">>, <<"\\", "\"">>}

\* Vec<String> of at most MaxArgs elements
ArgumentLists ==
    UNION {[1..n -> StringSamples] : n \in 0..MaxArgs}

\* lib.rs, lines 24-43: the values of CompileCommand
CompileCommands ==
    [ directory : {<<"a">>, <<"\\", "\"">>},
      file : {<<"a">>, <<"\"", ",">>},
      command : {None} \cup {Some(str) : str \in StringSamples},
      arguments : {None} \cup {Some(args) : args \in ArgumentLists},
      output : {None} \cup {Some(str) : str \in StringSamples} ]

\* a string writer that escapes the quote and leaves the backslash
RECURSIVE escape_quotes_only(_)
escape_quotes_only(chars) ==
    IF chars = <<>> THEN <<>>
    ELSE (IF Head(chars) = "\"" THEN <<"\\", "\"">> ELSE <<Head(chars)>>)
             \o escape_quotes_only(Tail(chars))

\* serde_json, writing the inside of a string: quote and backslash escaped
RECURSIVE escape(_)
escape(chars) ==
    IF chars = <<>> THEN <<>>
    ELSE (IF Head(chars) \in {"\"", "\\"} THEN <<"\\", Head(chars)>> ELSE <<Head(chars)>>)
             \o escape(Tail(chars))

\* serde_json, writing a string
write_str(chars) == <<"\"">> \o escape(chars) \o <<"\"">>

\* serde_json, writing a Vec<String>
RECURSIVE write_items(_)
write_items(args) ==
    IF args = <<>> THEN <<>>
    ELSE IF Len(args) = 1 THEN write_str(args[1])
    ELSE write_str(args[1]) \o <<",">> \o write_items(Tail(args))

write_array(args) == <<"[">> \o write_items(args) \o <<"]">>

\* one member of the object: , "key" : value
write_member(key, value) == <<",">> \o write_str(<<key>>) \o <<":">> \o value

\* #[derive(Serialize)] with skip_serializing_if = "Option::is_none":
\* serde_json::to_string(&cmd)
to_string(c) ==
    <<"{">> \o write_str(<<"directory">>) \o <<":">> \o write_str(c.directory)
        \o write_member("file", write_str(c.file))
        \o (IF c.command = None THEN <<>>
            ELSE write_member("command", write_str(c.command[1])))
        \o (IF c.arguments = None THEN <<>>
            ELSE write_member("arguments", write_array(c.arguments[1])))
        \o (IF c.output = None THEN <<>>
            ELSE write_member("output", write_str(c.output[1])))
        \o <<"}">>

\* a parse that failed
ParseError == [ok |-> FALSE, kind |-> "error", value |-> <<>>, next |-> 0]

\* serde_json, reading the inside of a string from position j to the closing
\* quote
RECURSIVE scan_string(_, _, _)
scan_string(text, j, acc) ==
    IF j > Len(text) THEN ParseError
    ELSE IF text[j] = "\"" THEN [ok |-> TRUE, kind |-> "string", value |-> acc, next |-> j + 1]
    ELSE IF text[j] = "\\"
    THEN IF j + 1 <= Len(text) /\ text[j + 1] \in {"\"", "\\"}
         THEN scan_string(text, j + 2, Append(acc, text[j + 1]))
         ELSE ParseError
    ELSE scan_string(text, j + 1, Append(acc, text[j]))

\* serde_json, reading a string that starts at position i
parse_string(text, i) ==
    IF i <= Len(text) /\ text[i] = "\"" THEN scan_string(text, i + 1, <<>>) ELSE ParseError

\* serde_json, reading the elements of an array of strings from position i
RECURSIVE parse_items(_, _, _)
parse_items(text, i, acc) ==
    LET item == parse_string(text, i)
    IN  IF ~item.ok \/ item.next > Len(text) THEN ParseError
        ELSE IF text[item.next] = ","
        THEN parse_items(text, item.next + 1, Append(acc, item.value))
        ELSE IF text[item.next] = "]"
        THEN [ok |-> TRUE, kind |-> "array", value |-> Append(acc, item.value),
              next |-> item.next + 1]
        ELSE ParseError

\* serde_json, reading a value: a string, an array of strings or null
parse_value(text, i) ==
    IF i > Len(text) THEN ParseError
    ELSE IF text[i] = "null" THEN [ok |-> TRUE, kind |-> "null", value |-> <<>>, next |-> i + 1]
    ELSE IF text[i] = "["
    THEN IF i + 1 <= Len(text) /\ text[i + 1] = "]"
         THEN [ok |-> TRUE, kind |-> "array", value |-> <<>>, next |-> i + 2]
         ELSE parse_items(text, i + 1, <<>>)
    ELSE parse_string(text, i)

\* serde_json, reading the members of an object from position i: the
\* members read, in order, each with its key
RECURSIVE parse_members(_, _, _)
parse_members(text, i, acc) ==
    LET key == parse_string(text, i)
    IN  IF ~key.ok \/ key.next > Len(text) \/ text[key.next] # ":" THEN ParseError
        ELSE LET member == parse_value(text, key.next + 1)
                 read == Append(acc, [key |-> key.value, kind |-> member.kind,
                                      value |-> member.value])
             IN  IF ~member.ok \/ member.next > Len(text) THEN ParseError
                 ELSE IF text[member.next] = ","
                 THEN parse_members(text, member.next + 1, read)
                 ELSE IF text[member.next] = "}" /\ member.next = Len(text)
                 THEN [ok |-> TRUE, kind |-> "object", value |-> read, next |-> member.next + 1]
                 ELSE ParseError

\* the members read for the field
MembersOf(members, field) ==
    {k \in 1..Len(members) : members[k].key = <<field>>}

\* #[derive(Deserialize)] on a String field: it must be there, once, a string
required_string(members, field) ==
    IF Cardinality(MembersOf(members, field)) # 1 THEN None
    ELSE IF members[Min(MembersOf(members, field))].kind # "string" THEN None
    ELSE Some(members[Min(MembersOf(members, field))].value)

\* #[derive(Deserialize)] on an Option field: a missing member and null give
\* None, a value of the kind wanted gives Some
optional(members, field, kind) ==
    IF MembersOf(members, field) = {} THEN Some(None)
    ELSE IF Cardinality(MembersOf(members, field)) # 1 THEN None
    ELSE IF members[Min(MembersOf(members, field))].kind = "null" THEN Some(None)
    ELSE IF members[Min(MembersOf(members, field))].kind # kind THEN None
    ELSE Some(Some(members[Min(MembersOf(members, field))].value))

\* serde_json::from_str::<CompileCommand>(&json): Result<CompileCommand>
from_str(text) ==
    IF Len(text) < 2 \/ text[1] # "{" THEN [ok |-> FALSE, value |-> None]
    ELSE LET object == parse_members(text, 2, <<>>)
         IN  IF ~object.ok THEN [ok |-> FALSE, value |-> None]
             ELSE LET directory == required_string(object.value, "directory")
                      file == required_string(object.value, "file")
                      command == optional(object.value, "command", "string")
                      arguments == optional(object.value, "arguments", "array")
                      output == optional(object.value, "output", "string")
                  IN  IF None \in {directory, file, command, arguments, output}
                      THEN [ok |-> FALSE, value |-> None]
                      ELSE [ok |-> TRUE,
                            value |-> [directory |-> directory[1], file |-> file[1],
                                       command |-> command[1],
                                       arguments |-> arguments[1],
                                       output |-> output[1]]]

\* lib.rs, lines 132-138: a CompileCommand is there, nothing is serialized yet
SerdeInit ==
    /\ phase = "start"
    /\ config = DefaultConfig
    /\ exclude_regex = None
    /\ dir_stack = <<>>
    /\ working_dir = <<>>
    /\ commands = <<>>
    /\ trace = <<>>
    /\ all_commands = <<>>
    /\ first_run = None
    /\ DrainIdle
    /\ serde_cmd \in {Some(c) : c \in CompileCommands}
    /\ json = None
    /\ decoded = None

\* lib.rs, line 140: serde_json::to_string(&cmd)
Serialize ==
    /\ serde_cmd # None
    /\ json = None
    /\ json' = Some(to_string(serde_cmd[1]))
    /\ UNCHANGED <<serde_cmd, decoded, parser_vars, drain_vars>>

\* lib.rs, line 141: serde_json::from_str(&json)
Deserialize ==
    /\ json # None
    /\ decoded = None
    /\ decoded' = Some(from_str(json[1]))
    /\ UNCHANGED <<serde_cmd, json, parser_vars, drain_vars>>

SerdeNext ==
    \/ Serialize
    \/ Deserialize

SerdeSpec == SerdeInit /\ [][SerdeNext]_vars

-----------------------------------------------------------------------------
(* Reading the log of a run *)

\* the parser's fields when Parser::new returned
InitialDir == IF config.build_dir # <<>> THEN config.build_dir ELSE CurrentDir

\* working_dir and dir_stack when the i-th parse_line call was made
WdBefore(i) == IF i = 1 THEN InitialDir ELSE trace[i - 1].working_dir
StackBefore(i) == IF i = 1 THEN <<InitialDir>> ELSE trace[i - 1].dir_stack

QuoteStyles == {<<"'", "'">>, <<BT, "'">>, <<"\"", "\"">>}

-----------------------------------------------------------------------------
(* C1 *)

ExecuteReturned == returned # "none"

\* C1: MakeWrapper::execute never deadlocks while draining the child: as long
\* as execute has not returned, the driver or the child can take a step,
\* whatever the child writes to its two bounded pipes.
C1_ExecuteNeverDeadlocks == ExecuteReturned \/ ENABLED DrainNext

-----------------------------------------------------------------------------
(* C2 *)

\* C2 as stated: once the parser is constructed, and after any sequence of
\* parse_line calls, dir_stack is non-empty and its head equals working_dir.
C2_HeadIsWorkingDir ==
    phase = "ready" => dir_stack # <<>> /\ dir_stack[1] = working_dir

\* the lines that carry a cd sub-command
LinesWithCd ==
    {line \in Lines : \E k \in 1..Len(line_commands(line)) :
                          cd_captures(line_commands(line)[k]) # None}

\* the i-th line carries a cd sub-command
HasCd(i) == trace[i].line \in LinesWithCd

\* the i-th line is a Leaving banner that met a stack of at most one entry
PopsLastEntry(i) == make_leave_dir(trace[i].line) /\ Len(StackBefore(i)) <= 1

NoCdNoUnderflow == \A i \in 1..Len(trace) : ~HasCd(i) /\ ~PopsLastEntry(i)

\* C2 amended: after Parser::new and after any sequence of parse_line calls
\* in which no line carries a cd sub-command and no Leaving banner arrives
\* while dir_stack holds a single entry, dir_stack is non-empty and its head
\* equals working_dir.
C2_HeadIsWorkingDirWithoutCd ==
    phase = "ready" /\ NoCdNoUnderflow
        => dir_stack # <<>> /\ dir_stack[1] = working_dir

\* an Entering banner, a make -C line and a Leaving banner were parsed and
\* the invariant's premise holds
C2_Witness ==
    /\ phase = "ready" /\ NoCdNoUnderflow
    /\ Len(trace) >= 3
    /\ trace[1].line = MakeCLine(<<"sub">>)
    /\ trace[2].line = EnterLine("'", SubDir, "'")
    /\ trace[3].line = LeaveLine("'", SubDir, "'")
    /\ trace[3].handled

-----------------------------------------------------------------------------
(* C3 *)

\* the lines i and i+1 are an Entering banner and the Leaving banner that make
\* prints for the same directory, in one quote style
EnterThenLeave(i) ==
    \E q \in QuoteStyles : \E dir \in {SubDir, BuildDir} :
        /\ trace[i].line = EnterLine(q[1], dir, q[2])
        /\ trace[i + 1].line = LeaveLine(q[1], dir, q[2])

\* C3: from every reachable parser state, an Entering banner immediately
\* followed by the matching Leaving banner leaves working_dir as it was before
\* the Entering banner, and neither line yields a record.
C3_EnterLeaveRestores ==
    \A i \in 1..(Len(trace) - 1) :
        EnterThenLeave(i) =>
            /\ trace[i + 1].working_dir = WdBefore(i)
            /\ trace[i].commands = <<>>
            /\ trace[i + 1].commands = <<>>

-----------------------------------------------------------------------------
(* C4 *)

\* C4: a Leaving banner is always consumed by the Directory Tracker.  It
\* yields no record; on a non-empty stack it pops one entry and makes the new
\* top, if any, the working directory; on an empty stack it changes nothing
\* and is still consumed, never handed to the compiler classification.
C4_LeavingAlwaysConsumed ==
    \A i \in 1..Len(trace) :
        make_leave_dir(trace[i].line) =>
            /\ trace[i].handled
            /\ trace[i].commands = <<>>
            /\ IF StackBefore(i) # <<>>
               THEN /\ trace[i].dir_stack = Tail(StackBefore(i))
                    /\ trace[i].working_dir =
                           IF Tail(StackBefore(i)) # <<>>
                           THEN Tail(StackBefore(i))[1] ELSE WdBefore(i)
               ELSE /\ trace[i].dir_stack = StackBefore(i)
                    /\ trace[i].working_dir = WdBefore(i)

-----------------------------------------------------------------------------
(* C5 *)

\* the directory make announces for make -C dir run in the directory wd
Announced(wd, dir) == join(wd, dir)

\* lines i..k are a recursive make: the make -C line, the Entering banner of
\* the sub-make, compile lines of the sub-build, the Leaving banner
RecursiveMake(i, k) ==
    \E dir \in {<<"sub">>} :
        /\ i + 2 <= k
        /\ trace[i].line = MakeCLine(dir)
        /\ trace[i + 1].line = EnterLine("'", Announced(WdBefore(i), dir), "'")
        /\ trace[k].line = LeaveLine("'", Announced(WdBefore(i), dir), "'")
        /\ \A m \in (i + 2)..(k - 1) :
               trace[m].line \in {CompileLine(<<"a.c">>), CompileLine(<<"b.c">>)}

\* C5: recursive make invocations nest and restore on exit: after the Leaving
\* banner of a make -C sub-make the working directory is again the one in
\* which the make -C line was read.
C5_RecursiveMakeRestores ==
    \A i \in 1..Len(trace) : \A k \in 1..Len(trace) :
        RecursiveMake(i, k) => trace[k].working_dir = WdBefore(i)

-----------------------------------------------------------------------------
(* C6 *)

\* the i-th line reached the back-tick substitution and one substitution
\* failed: a span is left in the text
SubstitutionFailed(i) ==
    /\ trace[i].line # <<>> /\ ~checking_make(trace[i].line)
    /\ ~trace[i].handled
    /\ compile_match(trace[i].line, config.regex_compile)
    /\ nested_captures(process_nested_commands(ToChars(trace[i].line))) # None

\* C6: a line with a failed back-tick substitution yields no record and
\* leaves working_dir and dir_stack unchanged.
C6_FailedSubstitutionDropsLine ==
    \A i \in 1..Len(trace) :
        SubstitutionFailed(i) =>
            /\ trace[i].commands = <<>>
            /\ trace[i].working_dir = WdBefore(i)
            /\ trace[i].dir_stack = StackBefore(i)

-----------------------------------------------------------------------------
(* C7 *)

\* C7: no record returned by parse_line has a file that matches any of the
\* configured exclusion patterns, whatever their number.
C7_NoExcludedFile ==
    \A i \in 1..Len(commands) : \A k \in 1..Len(config.exclude_patterns) :
        ~is_match(config.exclude_patterns[k], commands[i].file)

-----------------------------------------------------------------------------
(* C8 *)

AllPatternsValid ==
    /\ config.regex_compile.valid
    /\ config.regex_file.valid
    /\ \A k \in 1..Len(config.exclude_patterns) : config.exclude_patterns[k].valid

\* C8: Parser::new returns an error when the compiler pattern, the file
\* pattern or any exclusion pattern is invalid, and succeeds only when all of
\* them are valid.
C8_NewFailsOnInvalidPattern ==
    /\ phase = "ready" => AllPatternsValid
    /\ phase = "error" => ~AllPatternsValid

-----------------------------------------------------------------------------
(* C9 *)

\* the directories the run has been in
DirsOfRun ==
    {InitialDir} \cup {trace[i].working_dir : i \in 1..Len(trace)}

\* the string names an absolute path
IsAbsoluteStr(str) == \E dir \in DirsOfRun : is_absolute(dir) /\ TokStr(dir) = str

\* C9: starting from an absolute build directory, every entry of dir_stack is
\* an absolute path and so is the directory of every record.
C9_DirectoriesAbsolute ==
    phase = "ready" /\ is_absolute(config.build_dir) =>
        /\ \A k \in 1..Len(dir_stack) : is_absolute(dir_stack[k])
        /\ \A i \in 1..Len(commands) : IsAbsoluteStr(commands[i].directory)

-----------------------------------------------------------------------------
(* C10 *)

\* C10: every record parse_line returns has exactly one of command and
\* arguments: command, the arguments joined by single blanks, when
\* command_style is set, arguments otherwise; output is always absent.
C10_CommandXorArguments ==
    /\ \A i \in 1..Len(commands) :
           /\ (commands[i].command = None) # (commands[i].arguments = None)
           /\ (commands[i].command # None) = config.command_style
           /\ commands[i].output = None
    /\ \A i \in 1..Len(commands) :
           trace[Len(trace)].line = CompileLine(<<"a.c">>) /\ ~config.full_path =>
               /\ config.command_style /\ config.macros = <<<<"-DX">>>>
                      => commands[i].command = Some("gcc -c a.c -o a.o -DX")
               /\ ~config.command_style /\ config.macros = <<>>
                      => commands[i].arguments = Some(<<"gcc", "-c", "a.c", "-o", "a.o">>)

\* parse_line returned a record in command style
C10_Witness ==
    /\ config.command_style
    /\ commands # <<>>
    /\ commands[1].command = Some("gcc -c a.c -o a.o -DX")
    /\ commands[1].arguments = None

-----------------------------------------------------------------------------
(* C11 *)

\* the records parse_line returned for the first n lines, one line after the
\* other
RECURSIVE RecordsOfLines(_)
RecordsOfLines(n) ==
    IF n = 0 THEN <<>> ELSE RecordsOfLines(n - 1) \o trace[n].commands

\* C11: order preservation: the record sequence collected by parse_file (and
\* by the stdin and make-driver loops) is the concatenation, in input line
\* order, of the record sequences parse_line returned for each line; no
\* record is dropped, duplicated or reordered.
C11_OrderPreserved == all_commands = RecordsOfLines(Len(trace))

\* two lines gave two different records, collected in the order of the lines
C11_Witness ==
    /\ Len(trace) >= 2
    /\ Len(trace[1].commands) = 1
    /\ Len(trace[2].commands) = 1
    /\ trace[1].commands # trace[2].commands
    /\ all_commands = trace[1].commands \o trace[2].commands

-----------------------------------------------------------------------------
(* C12 *)

\* the directories named by the cd sub-commands of the lines
CdDirs == {<<"sub">>, SubDir}

\* the directory a cd to dir leads to from the directory wd
CdTarget(wd, dir) == IF dir[1] = "/" THEN dir ELSE wd \o dir

\* the compile command on file, run in the directory wd, gives a record: the
\* file is not excluded and, in strict mode, it exists
Compiles(file, wd) ==
    /\ exclude_regex = None \/ TokStr(file) \notin exclude_regex[1].lang
    /\ config.no_strict \/ wd \o file \in FilesOnDisk

-----------------------------------------------------------------------------
(* C13 *)

\* the simple lines <cc> -c <file> -o <out> among the lines parsed
SimpleCompilers == {"gcc", "clang"}
SimpleFiles == {<<"a.c">>, <<"b.c">>, <<"/", "w", "sub", "a.c">>, OutsideFile}
SimpleOutputs == {"a.o", "b.o"}

\* the i-th line is <cc> -c <file> -o <out>
IsSimpleLine(i, cc, file, out) == trace[i].line = SimpleLine(cc, file, out)

\* the i-th line gave exactly one record, for file, whose argument list has
\* the five tokens of the line
OneRecordFiveTokens(i, file) ==
    /\ Len(trace[i].commands) = 1
    /\ trace[i].commands[1].file = TokStr(file)
    /\ trace[i].commands[1].arguments # None
           => Len(trace[i].commands[1].arguments[1]) = Len(trace[i].line)

\* C13 as stated: with strict checking disabled, every simple line
\* <cc> -c <file> -o <out> yields exactly one record whose file equals <file>
\* and whose argument list has the token count of the line.
C13_SimpleLineOneRecord ==
    \A i \in 1..Len(trace) :
        \A cc \in SimpleCompilers, file \in SimpleFiles, out \in SimpleOutputs :
            IsSimpleLine(i, cc, file, out) /\ config.no_strict
                => OneRecordFiveTokens(i, file)

\* strict checking is disabled, no macros are configured, file is relative and
\* the exclusion pattern in force does not match it
PlainCase(file) ==
    /\ config.no_strict
    /\ config.macros = <<>>
    /\ file[1] # "/"
    /\ exclude_regex = None \/ TokStr(file) \notin exclude_regex[1].lang

\* C13 amended: with strict checking disabled, no macros configured and a
\* relative <file> that the exclusion pattern in force does not match, every
\* simple line <cc> -c <file> -o <out> yields exactly one record whose file
\* equals <file> and whose argument list, in arguments style, has the token
\* count of the line.
C13_SimpleLineOneRecordPlain ==
    \A i \in 1..Len(trace) :
        \A cc \in SimpleCompilers, file \in SimpleFiles, out \in SimpleOutputs :
            (IsSimpleLine(i, cc, file, out) /\ PlainCase(file))
                => /\ OneRecordFiveTokens(i, file)
                   /\ ~config.command_style => trace[i].commands[1].arguments # None

\* clang -c b.c -o b.o gave one record for b.c with the five words of the line
C13_Witness ==
    /\ config = DefaultConfig
    /\ trace # <<>>
    /\ trace[Len(trace)].line = ClangLine
    /\ Len(commands) = 1
    /\ commands[1].file = "b.c"
    /\ commands[1].arguments = Some(<<"clang", "-c", "b.c", "-o", "b.o">>)

-----------------------------------------------------------------------------
(* C14 *)

\* a line with a back-tick span whose command succeeds, and the same line with
\* the span replaced by what the command prints
SubstPairs ==
    { <<SubstLine, CompileLine(<<"a.c">>)>>,
      <<CompilerSubstLine, CompileLine(<<"a.c">>)>> }

\* what parse_line gives for line from the state the i-th call was made in
ParsedInstead(i, line) ==
    parse_line(line, StackBefore(i), WdBefore(i), config, exclude_regex)

\* the i-th call gave what parsing line in its place gives
SameAsParsing(i, line) ==
    /\ trace[i].commands = ParsedInstead(i, line).commands
    /\ trace[i].working_dir = ParsedInstead(i, line).working_dir
    /\ trace[i].dir_stack = ParsedInstead(i, line).dir_stack

\* C14 as stated: parsing a line with a back-tick span whose command succeeds
\* with output S yields the same records and the same parser state as parsing
\* the line with the span replaced by S.
C14_SubstitutionEquivalence ==
    \A i \in 1..Len(trace) : \A pair \in SubstPairs :
        trace[i].line = pair[1] => SameAsParsing(i, pair[2])

\* the line is neither empty, nor a probe line, nor a line the directory
\* tracker consumes, and the compiler pattern matches it as it is written
ReachesSubstitution(line) ==
    /\ line # <<>>
    /\ ~checking_make(line)
    /\ make_enter_dir(line) = None
    /\ ~make_leave_dir(line)
    /\ make_cmd_dir(line) = None
    /\ \E k \in 1..Len(line) : Last(line[k]) \in config.regex_compile.lang

\* C14 amended: when the line with the span and the line with the literal
\* text both pass the probe filter, the directory tracker and the compiler
\* pattern as they are written, parsing the one yields the same records and
\* the same parser state as parsing the other.
C14_SubstitutionEquivalenceAfterMatch ==
    \A i \in 1..Len(trace) : \A pair \in SubstPairs :
        (trace[i].line = pair[1] /\ ReachesSubstitution(pair[1])
             /\ ReachesSubstitution(pair[2]))
            => SameAsParsing(i, pair[2])

\* gcc -c <span echo a.c> -o a.o gave the record for a.c
C14_Witness ==
    /\ trace # <<>>
    /\ trace[Len(trace)].line = SubstLine
    /\ Len(commands) = 1
    /\ commands[1].file = "a.c"
    /\ SameAsParsing(Len(trace), CompileLine(<<"a.c">>))

-----------------------------------------------------------------------------
(* C15 *)

\* the path file lies under the directory wd
Under(file, wd) == IsPrefix(Components(wd), Components(file))

\* some tail of wd's components starts some tail of file's components
Alignable(file, wd) ==
    \E a \in 1..Len(Components(file)) : \E b \in 1..Len(Components(wd)) :
        IsPrefix(SubSeq(Components(wd), b, Len(Components(wd))),
                 SubSeq(Components(file), a, Len(Components(file))))

\* the tails of a path
Tails(path) == {SubSeq(path, a, Len(path)) : a \in 1..Len(path)}

\* str names a relative path that, joined to the directory wd, is file
RelativeTo(str, file, wd) ==
    \E rel \in Tails(Components(file)) :
        /\ rel[1] # "/"
        /\ TokStr(rel) = str
        /\ Components(wd \o rel) = Components(file)

\* C15: the file of a record: an absolute source path under the working
\* directory is emitted relative to it, so that directory joined with file is
\* the original path; an absolute path sharing no prefix and no alignable
\* suffix with the working directory is emitted unchanged; a relative path
\* is emitted unchanged.
C15_FileNormalized ==
    \A i \in 1..Len(trace) :
        \A cc \in SimpleCompilers, file \in SimpleFiles, out \in SimpleOutputs :
            \A k \in 1..Len(trace[i].commands) :
                IsSimpleLine(i, cc, file, out) =>
                    /\ trace[i].commands[k].directory = TokStr(WdBefore(i))
                    /\ file[1] # "/" => trace[i].commands[k].file = TokStr(file)
                    /\ (file[1] = "/" /\ Under(file, WdBefore(i)))
                           => RelativeTo(trace[i].commands[k].file, file, WdBefore(i))
                    /\ (file[1] = "/" /\ ~Under(file, WdBefore(i))
                            /\ ~Alignable(file, WdBefore(i)))
                           => trace[i].commands[k].file = TokStr(file)

\* in /w/sub, gcc -c /w/sub/a.c -o a.o gave a record for a.c, and in /w the
\* file outside the build tree was kept as written
C15_Witness ==
    /\ Len(trace) >= 3
    /\ trace[1].line = CompileLine(OutsideFile)
    /\ Len(trace[1].commands) = 1
    /\ trace[1].commands[1].file = "/x/sub/a.c"
    /\ trace[2].line = EnterLine("'", SubDir, "'")
    /\ trace[3].line = CompileLine(<<"/", "w", "sub", "a.c">>)
    /\ Len(trace[3].commands) = 1
    /\ trace[3].commands[1].file = "a.c"
    /\ trace[3].commands[1].directory = "/w/sub"

-----------------------------------------------------------------------------
(* C16 *)

\* C16: in every record of a compile line whose source path is absolute, the
\* argument after -c is made relative the way file is (prefix stripping and,
\* failing that, the common-suffix fallback): it equals the record's file.
C16_ArgumentMatchesFile ==
    \A i \in 1..Len(trace) :
        \A cc \in SimpleCompilers, file \in SimpleFiles, out \in SimpleOutputs :
            \A k \in 1..Len(trace[i].commands) :
                (/\ IsSimpleLine(i, cc, file, out)
                 /\ file[1] = "/"
                 /\ trace[i].commands[k].arguments # None)
                    => \A a \in 1..(Len(trace[i].commands[k].arguments[1]) - 1) :
                           trace[i].commands[k].arguments[1][a] = "-c"
                               => trace[i].commands[k].arguments[1][a + 1]
                                      = trace[i].commands[k].file

-----------------------------------------------------------------------------
(* C17 *)

\* the second run has read every line of the stream
SecondRunDone == first_run # None /\ Len(trace) = Len(first_run[1].trace)

-----------------------------------------------------------------------------
(* C18 *)

\* the dry-run trace was collected to its end and child.wait() gave a status
TraceCollected ==
    returned \notin {"none", "Err: spawn", "Err: InvalidCommand", "Err: wait"}

\* C18: once the trace is collected, execute returns an error if and only if
\* the child's exit status is non-zero and no_build is not set; with no_build
\* set a non-zero status still returns the records; a failure to spawn or to
\* wait is always an error.
C18_TraceFailure ==
    /\ TraceCollected =>
           /\ status # "none"
           /\ (returned # "Ok") = (status = "failure" /\ ~config.no_build)
    /\ (pc # "spawn" /\ child = "none") => returned = "Err: spawn"
    /\ returned = "Ok" => pc \in {"done", "run_build", "exit"}
    /\ returned \in {"Err: spawn", "Err: InvalidCommand", "Err: wait",
                    "Err: Make command failed"}
           => pc \in {"failed", "exit"} /\ build = "none"

\* the child failed, no_build is set and execute returned the records
C18_Witness ==
    /\ returned = "Ok"
    /\ status = "failure"
    /\ config.no_build

-----------------------------------------------------------------------------
(* C19 *)

\* run_build has been called and has returned
RunBuildReturned == pc = "exit" /\ returned = "Ok" /\ build # "none"

\* C19: run_build spawns the build tool if and only if no_build is not set;
\* when it spawns, the operation fails exactly when the spawn fails or the
\* build exits non-zero; with no_build set nothing is spawned and run_build
\* succeeds.
C19_RealBuild ==
    RunBuildReturned =>
        /\ (build = "not spawned") = config.no_build
        /\ build = "not spawned" => outcome = "Ok"
        /\ build # "not spawned" =>
               (outcome = "Err") = (build \in {"spawn error", "failure"})
        /\ outcome \in {"Ok", "Err"}

\* the real build was started, exited non-zero and run failed
C19_Witness ==
    /\ RunBuildReturned
    /\ ~config.no_build
    /\ build = "failure"
    /\ outcome = "Err"

-----------------------------------------------------------------------------
(* C20 *)

\* C20: per-line extraction failures are never fatal: whatever the line,
\* parse_line returns a possibly empty record sequence, and the stream goes
\* on being parsed with the records of the other lines collected.
C20_ParseLineAlwaysReturns ==
    /\ phase # "hung"
    /\ phase = "ready" => all_commands = RecordsOfLines(Len(trace))

-----------------------------------------------------------------------------
(* C21 *)

\* the characters of the JSON text
JsonChars == {json[1][k] : k \in 1..Len(json[1])}

\* C21: serialization round trip: serializing a CompileCommand to JSON and
\* deserializing the text gives back the same directory, file, command,
\* arguments and output; an optional field that is absent is left out of the
\* JSON, not written as null, and is absent after the round trip.
C21_RoundTrip ==
    /\ json # None =>
           /\ "null" \notin JsonChars
           /\ ("command" \in JsonChars) = (serde_cmd[1].command # None)
           /\ ("arguments" \in JsonChars) = (serde_cmd[1].arguments # None)
           /\ ("output" \in JsonChars) = (serde_cmd[1].output # None)
    /\ decoded # None =>
           /\ decoded[1].ok
           /\ decoded[1].value = serde_cmd[1]

\* a record with a backslash and a quote in its command, without arguments
\* and output, came back from its JSON text
C21_Witness ==
    /\ decoded # None
    /\ decoded[1].ok
    /\ serde_cmd[1].command = Some(<<"\\", "\"">>)
    /\ serde_cmd[1].arguments = None
    /\ serde_cmd[1].output = None
    /\ decoded[1].value.command = Some(<<"\\", "\"">>)
    /\ decoded[1].value.arguments = None
    /\ "arguments" \notin JsonChars

-----------------------------------------------------------------------------
(* C22 *)

\* the lines whose commands the loop of parse_line runs through, with the
\* one cd sub-command they hold
OneCdLines ==
    { [line |-> CdCompilerLine, dir |-> <<"gcc">>, others |-> 0],
      [line |-> CdCompileLine(<<"sub">>, <<"b.c">>), dir |-> <<"sub">>, others |-> 1],
      [line |-> CdCompileLine(SubDir, <<"b.c">>), dir |-> SubDir, others |-> 1],
      [line |-> CompileCdCompileLine, dir |-> <<"sub">>, others |-> 2],
      [line |-> CompileCdLine, dir |-> <<"sub">>, others |-> 1] }

\* C22: a cd <path> sub-command is a flat replace: it changes working_dir
\* and leaves dir_stack as it was, it produces no record, and the directory
\* it set is the one of the lines that follow until the next directory
\* announcement or cd.
C22_CdFlatReplace ==
    \A i \in 1..Len(trace) : \A l \in OneCdLines :
        trace[i].line = l.line =>
            /\ trace[i].dir_stack = StackBefore(i)
            /\ trace[i].working_dir = CdTarget(WdBefore(i), l.dir)
            /\ Len(trace[i].commands) <= l.others
            /\ i < Len(trace) /\ trace[i + 1].line = CompileLine(<<"a.c">>) =>
                   /\ trace[i + 1].working_dir = CdTarget(WdBefore(i), l.dir)
                   /\ trace[i + 1].dir_stack = StackBefore(i)
                   /\ \A k \in 1..Len(trace[i + 1].commands) :
                          trace[i + 1].commands[k].directory
                              = TokStr(CdTarget(WdBefore(i), l.dir))

\* after an Entering banner a cd sub-command changed the directory under a
\* stack of two, and the compile command of the next line was recorded in it
C22_Witness ==
    /\ Len(trace) = 3
    /\ trace[1].line = EnterLine("'", SubDir, "'")
    /\ trace[2].line = CdCompilerLine
    /\ trace[3].line = CompileLine(<<"a.c">>)
    /\ trace[2].working_dir = SubDir \o <<"gcc">>
    /\ Len(trace[2].dir_stack) = 2
    /\ Len(trace[3].commands) = 1
    /\ trace[3].commands[1].directory = TokStr(SubDir \o <<"gcc">>)

-----------------------------------------------------------------------------
(* C23 *)

CdItem(dir) == [kind |-> "cd", arg |-> dir]
CompileItem(file) == [kind |-> "compile", arg |-> file]

\* the sub-commands of the composite lines, from left to right
SubCommands(line) ==
    CASE line = CompileLine(<<"a.c">>) -> <<CompileItem(<<"a.c">>)>>
      [] line = CdCompilerLine -> <<CdItem(<<"gcc">>)>>
      [] line = CdCompileLine(<<"sub">>, <<"b.c">>) ->
             <<CdItem(<<"sub">>), CompileItem(<<"b.c">>)>>
      [] line = CdCompileLine(SubDir, <<"b.c">>) ->
             <<CdItem(SubDir), CompileItem(<<"b.c">>)>>
      [] line = CompileCdCompileLine ->
             <<CompileItem(<<"a.c">>), CdItem(<<"sub">>), CompileItem(<<"b.c">>)>>
      [] line = CompileCdLine -> <<CompileItem(<<"a.c">>), CdItem(<<"sub">>)>>
      [] line = CdCdCompileLine ->
             <<CdItem(<<"sub">>), CdItem(<<"sub">>), CompileItem(<<"b.c">>)>>
      [] OTHER -> <<>>

\* the directory the cd sub-commands among the first k lead to, from wd
RECURSIVE DirAfter(_, _, _)
DirAfter(subs, k, wd) ==
    IF k = 0 THEN wd
    ELSE IF subs[k].kind = "cd" THEN CdTarget(DirAfter(subs, k - 1, wd), subs[k].arg)
    ELSE DirAfter(subs, k - 1, wd)

\* directory and file of the records of the sub-commands that give one, each
\* in the directory the cd sub-commands to its left lead to, in the order of
\* the sub-commands
LeftToRight(subs, wd) ==
    LET kept == SelectSeq([k \in 1..Len(subs) |-> k],
                          LAMBDA k : /\ subs[k].kind = "compile"
                                     /\ Compiles(subs[k].arg, DirAfter(subs, k, wd)))
    IN  [n \in 1..Len(kept) |->
            [directory |-> TokStr(DirAfter(subs, kept[n], wd)),
             file |-> TokStr(subs[kept[n]].arg)]]

DirectoryAndFile(cmds) ==
    [n \in 1..Len(cmds) |-> [directory |-> cmds[n].directory, file |-> cmds[n].file]]

\* C23: within one composite line the sub-commands are processed from left to
\* right against the evolving working directory: the record of a compile
\* sub-command carries the directory that the cd sub-commands to its left
\* lead to from the directory at the start of the line, a cd to its right
\* does not change it, and the records are in the order of the sub-commands.
C23_LeftToRight ==
    \A i \in 1..Len(trace) :
        SubCommands(trace[i].line) # <<>> =>
            DirectoryAndFile(trace[i].commands)
                = LeftToRight(SubCommands(trace[i].line), WdBefore(i))

\* gcc -c a.c -o a.o ; cd sub ; gcc -c b.c -o a.o gave the record of a.c in
\* the directory of the start of the line and then the record of b.c in the
\* directory of the cd between them
C23_Witness ==
    /\ Len(trace) >= 1
    /\ trace[1].line = CompileCdCompileLine
    /\ Len(trace[1].commands) = 2
    /\ trace[1].commands[1].file = "a.c"
    /\ trace[1].commands[1].directory = TokStr(InitialDir)
    /\ trace[1].commands[2].file = "b.c"
    /\ trace[1].commands[2].directory = TokStr(InitialDir \o <<"sub">>)

-----------------------------------------------------------------------------
(* C24 *)

\* the directories of the make -C lines
MakeCDirs == {<<"sub">>, <<".">>}

\* C24: a make -C <dir> invocation line is consumed by the directory tracker
\* and yields no record, also when the line matches the compiler pattern; it
\* pushes <dir> on dir_stack and makes it working_dir when <dir> is not ".",
\* and leaves working_dir and dir_stack as they were when <dir> is ".".
C24_MakeCConsumed ==
    \A i \in 1..Len(trace) : \A dir \in MakeCDirs :
        trace[i].line \in {MakeCLine(dir), MakeCCompileLine(dir)} =>
            /\ trace[i].handled
            /\ trace[i].commands = <<>>
            /\ dir # <<".">> =>
                   /\ trace[i].dir_stack = <<dir>> \o StackBefore(i)
                   /\ trace[i].working_dir = dir
            /\ dir = <<".">> =>
                   /\ trace[i].dir_stack = StackBefore(i)
                   /\ trace[i].working_dir = WdBefore(i)

\* make -C sub && gcc -c a.c -o a.o pushed sub and gave no record, and
\* make -C . && gcc -c a.c -o a.o after it changed nothing and gave none
C24_Witness ==
    /\ Len(trace) >= 2
    /\ trace[1].line = MakeCCompileLine(<<"sub">>)
    /\ trace[1].commands = <<>>
    /\ trace[1].dir_stack = <<<<"sub">>, InitialDir>>
    /\ trace[2].line = MakeCCompileLine(<<".">>)
    /\ trace[2].commands = <<>>
    /\ trace[2].dir_stack = <<<<"sub">>, InitialDir>>
    /\ trace[2].working_dir = <<"sub">>

-----------------------------------------------------------------------------
(* C25 *)

\* the configure probe lines
ProbeLines ==
    { Words(<<"checking", "whether", "make", "sets", "$(MAKE)...", "no">>),
      ProbeCompileLine }

\* the lines that are neither a directory announcement nor hold a compiler
\* name
PlainLines ==
    { Words(<<"echo", "done">>),
      CdLine(<<"sub">>),
      LeaveLine(BT, SubDir, "'") }

\* C25: frame condition for non-build lines: a line that is empty, a
\* checking whether ... yes/no probe line, or a line that is not a directory
\* announcement and does not match the compiler pattern (such as a line that
\* is only cd <path>) yields no record and leaves working_dir and dir_stack
\* as they were; a probe line is discarded before the compiler
\* classification.
C25_NonBuildFrame ==
    \A i \in 1..Len(trace) :
        trace[i].line \in {<<>>} \cup ProbeLines \cup PlainLines =>
            /\ trace[i].commands = <<>>
            /\ trace[i].working_dir = WdBefore(i)
            /\ trace[i].dir_stack = StackBefore(i)

\* under a stack of two, a probe line that holds a compile command and a line
\* that is only cd sub gave no record and left the directory where it was
C25_Witness ==
    /\ Len(trace) = 3
    /\ trace[1].line = EnterLine("'", SubDir, "'")
    /\ trace[2].line = ProbeCompileLine
    /\ trace[3].line = CdLine(<<"sub">>)
    /\ trace[2].commands = <<>>
    /\ trace[3].working_dir = SubDir
    /\ Len(trace[3].dir_stack) = 2

-----------------------------------------------------------------------------
(* C26 *)

\* C26: quote-style symmetry of the directory banners: for every quote style
\* in which an Entering banner is recognized and pushes its path, the Leaving
\* banner written in the same quote style is recognized and pops, so that a
\* balanced Entering/Leaving pair returns dir_stack to the depth it had.
C26_QuoteStyleSymmetry ==
    \A i \in 1..(Len(trace) - 1) :
        EnterThenLeave(i) /\ trace[i].handled =>
            /\ trace[i + 1].handled
            /\ Len(trace[i + 1].dir_stack) = Len(StackBefore(i))

-----------------------------------------------------------------------------
(* C27 *)

\* C27: back-tick substitution terminates on every line: whatever the line
\* and whatever the subprocesses print, the call of parse_line that a ready
\* parser makes on the line returns.
C27_SubstitutionTerminates ==
    phase = "ready" =>
        \A line \in ExtractLines :
            parse_line(line, dir_stack, working_dir, config, exclude_regex).returns

-----------------------------------------------------------------------------
(* C28 *)

\* run_build has started the real build
BuildStarted == build \notin {"none", "not spawned"}

\* C28: phase ordering of the make subcommand: the database file is written
\* only after execute has returned the records (a failed trace or an invalid
\* pattern writes no file), the real build is started only after the
\* database has been written, and a failing real build makes the run fail
\* with the written database left in place.
C28_PhaseOrdering ==
    /\ output_file # "absent" => returned = "Ok"
    /\ returned \notin {"none", "Ok"} =>
           /\ output_file = "absent"
           /\ build = "none"
           /\ pc = "exit" => outcome = "Err"
    /\ pc = "run_build" \/ build # "none" => output_file = "written"
    /\ BuildStarted /\ build # "success" =>
           /\ outcome = "Err"
           /\ output_file = "written"

\* the trace succeeded, the database was written, then the real build was
\* started and failed: the run fails and the database is there
C28_Witness ==
    /\ pc = "exit"
    /\ phase = "ready"
    /\ returned = "Ok"
    /\ output_file = "written"
    /\ build = "failure"
    /\ outcome = "Err"

=============================================================================
